---- MODULE Spec2Model ----
(***************************************************************************)
(* Model of app/superhero_network.py: the menu loop over the two CSV files *)
(* superheroes.csv (id, name, created_at) and links.csv (source, target).  *)
(* One action per menu choice; every action is one iteration of the loop   *)
(* `while True` of menu(): input(), load_data(), the dispatched function.  *)
(* Dates are day numbers.                                                  *)
(***************************************************************************)
EXTENDS Integers, Sequences, FiniteSets, TLC

\* ---- bounds of the model ----
MaxNodes == 3       \* add_superhero is not taken once superheroes.csv has this many rows
MaxLinks == 2       \* add_connection does not append once links.csv has this many rows
StartNodes == 1     \* rows of superheroes.csv when the menu starts: 0..StartNodes
StartLinks == 1     \* rows of links.csv when the menu starts: 0..StartLinks
QueryNodes == 2     \* rows of superheroes.csv a query is run on: 0..QueryNodes
QueryLinks == 2     \* rows of links.csv a query is run on: 0..QueryLinks

\* ---- values ----
NaN == -1                              \* float('nan'): what Series.max() gives on an empty column
Names == {"dataiskole", "x"}           \* what the user types at a name prompt / names in the file
StartIds == {1, 3}                     \* ids in the two files when the menu starts
LinkIds == {1, 2, 3, 4}                \* ids in the rows of links.csv a query is run on
InitDates == {1, 5}                    \* created_at of the rows already in superheroes.csv
Days == {4, 5}                         \* the day a query is run
FirstDay == 4                          \* the day a session of the menu runs

VARIABLES
    superheroes_csv,  \* the rows of superheroes.csv: [id, name, created_at]
    links_csv,        \* the rows of links.csv: [source, target]
    today,            \* datetime.today().date(); one run of the program is within one day
    pc,               \* menu(): "prompt" in the loop, "exited" after break, "crashed"
                      \* when an exception left menu()
    choice,           \* the last text typed at "Choose an option"
    args,             \* the names typed at the prompts of that choice
    result            \* what that choice computed and printed
vars == <<superheroes_csv, links_csv, today, pc, choice, args, result>>

Min(a, b) == IF a <= b THEN a ELSE b
Front(s) == SubSeq(s, 1, Len(s) - 1)
Last(s) == s[Len(s)]
SeqsUpTo(S, n) == UNION {[1..k -> S] : k \in 0..n}

\* ---- pandas / collections helpers ----
\* df[col].tolist()
Column(df, col) == [i \in 1..Len(df) |-> df[i][col]]

\* elementwise == of pandas: NaN equals nothing, itself included
IdEq(a, b) == a # NaN /\ b # NaN /\ a = b

\* Series.max(): NaN on an empty (or all-NaN) column, NaN values skipped
RECURSIVE SeriesMax(_)
SeriesMax(ids) ==
    IF ids = <<>> THEN NaN
    ELSE LET m == SeriesMax(Front(ids))
             x == Last(ids)
         IN IF x = NaN THEN m ELSE IF m = NaN THEN x ELSE IF x > m THEN x ELSE m

\* x + 1 in float/int arithmetic: NaN + 1 is NaN
PlusOne(x) == IF x = NaN THEN NaN ELSE x + 1

\* Counter: an insertion-ordered mapping key -> count, as a sequence of <<key, count>>
CounterAdd(counts, key) ==
    IF \E i \in 1..Len(counts) : counts[i][1] = key
    THEN [i \in 1..Len(counts) |->
            IF counts[i][1] = key THEN <<key, counts[i][2] + 1>> ELSE counts[i]]
    ELSE Append(counts, <<key, 1>>)

RECURSIVE Counter(_)
Counter(elems) ==
    IF elems = <<>> THEN <<>> ELSE CounterAdd(Counter(Front(elems)), Last(elems))

\* heapq.nlargest / sorted(reverse=True) are stable: equal counts keep insertion order
InsertByCount(sorted, item) ==
    LET k == Cardinality({i \in 1..Len(sorted) : sorted[i][2] >= item[2]})
    IN SubSeq(sorted, 1, k) \o <<item>> \o SubSeq(sorted, k + 1, Len(sorted))

RECURSIVE SortedByCount(_)
SortedByCount(items) ==
    IF items = <<>> THEN <<>> ELSE InsertByCount(SortedByCount(Front(items)), Last(items))

most_common(counts, n) == SubSeq(SortedByCount(counts), 1, Min(n, Len(counts)))

\* pd.concat([a, b]).unique(): first occurrences, in order
RECURSIVE Unique(_)
Unique(s) ==
    IF s = <<>> THEN <<>>
    ELSE LET u == Unique(Front(s))
         IN IF \E i \in 1..Len(u) : u[i] = Last(s) THEN u ELSE Append(u, Last(s))

\* ---- basic_stats ----
\* superheroes['id'].nunique(): distinct ids, NaN dropped
count_nodes(superheroes) == Cardinality({superheroes[i].id : i \in 1..Len(superheroes)} \ {NaN})

\* superheroes[superheroes['created_at'] >= today - timedelta(days=3)]
recent_heroes(superheroes, now) == SelectSeq(superheroes, LAMBDA r : r.created_at >= now - 3)

\* counter_input with a fault: the endpoints taken row by row
counter_input_by_row(links) ==
    [i \in 1..(2 * Len(links)) |->
        IF i % 2 = 1 THEN links[(i + 1) \div 2].source ELSE links[i \div 2].target]

\* links['source'].tolist() + links['target'].tolist()
counter_input(links) == Column(links, "source") \o Column(links, "target")

connection_counts(links) == Counter(counter_input(links))

top_3(links) == most_common(connection_counts(links), 3)

\* superheroes.loc[superheroes['id'] == hero_id, 'name'].values
name_values(superheroes, hero_id) ==
    Column(SelectSeq(superheroes, LAMBDA r : IdEq(r.id, hero_id)), "name")

\* print_top with a fault: an id without a node is skipped
RECURSIVE print_top_skip(_, _)
print_top_skip(superheroes, top) ==
    IF top = <<>> THEN [printed |-> <<>>, raised |-> "none"]
    ELSE LET values == name_values(superheroes, Head(top)[1])
             rest == print_top_skip(superheroes, Tail(top))
         IN IF values = <<>>
            THEN rest
            ELSE [printed |-> <<(<<values[1], Head(top)[2]>>)>> \o rest.printed,
                  raised |-> rest.raised]

\* the loop `for hero_id, count in top_3`: the lines printed, and the exception
\* raised by values[0] on an empty array
RECURSIVE print_top(_, _)
print_top(superheroes, top) ==
    IF top = <<>> THEN [printed |-> <<>>, raised |-> "none"]
    ELSE LET values == name_values(superheroes, Head(top)[1])
         IN IF values = <<>>
            THEN [printed |-> <<>>, raised |-> "IndexError"]
            ELSE LET rest == print_top(superheroes, Tail(top))
                 IN [printed |-> <<(<<values[1], Head(top)[2]>>)>> \o rest.printed,
                     raised |-> rest.raised]

\* ---- analyze_dataiskole ----
dataiskole_row(superheroes) == SelectSeq(superheroes, LAMBDA r : r.name = "dataiskole")

friend_ids(links, id) ==
    LET is_source == Column(SelectSeq(links, LAMBDA l : IdEq(l.source, id)), "target")
        is_target == Column(SelectSeq(links, LAMBDA l : IdEq(l.target, id)), "source")
    IN Unique(is_source \o is_target)

\* superheroes[superheroes['id'].isin(friend_ids)]
friend_rows(superheroes, fids) ==
    SelectSeq(superheroes, LAMBDA r : \E i \in 1..Len(fids) : fids[i] = r.id)

\* ---- add_superhero / add_connection ----
\* new_id with a fault: the row count instead of the largest id
new_id_by_count(superheroes) == Len(superheroes) + 1

\* superheroes['id'].max() + 1
new_id(superheroes) == PlusOne(SeriesMax(Column(superheroes, "id")))

\* superheroes[superheroes['name'] == name]['id']
ids_of_name(superheroes, name) ==
    Column(SelectSeq(superheroes, LAMBDA r : r.name = name), "id")

\* not_found with a fault: `and` for `or`
not_found_both(id1, id2) == id1 = <<>> /\ id2 = <<>>

\* `if id1.empty or id2.empty`
not_found(id1, id2) == id1 = <<>> \/ id2 = <<>>

\* int(series): Series.__int__ of pandas 1.x/2.x raises TypeError unless the series
\* has one element; int(float('nan')) raises ValueError
int_raises(series) ==
    IF Len(series) # 1 THEN "TypeError"
    ELSE IF series[1] = NaN THEN "ValueError" ELSE "none"

\* ---- state ----
NoResult ==
    [outcome |-> "none", new_id |-> 0, top_3 |-> <<>>, printed |-> <<>>,
     recent |-> <<>>, total |-> 0, connections |-> 0, found |-> FALSE, friends |-> <<>>]

\* the id column of superheroes.csv holds no id twice
DistinctIds(superheroes) ==
    \A i, j \in 1..Len(superheroes) :
        IdEq(superheroes[i].id, superheroes[j].id) => i = j

\* superheroes.csv and links.csv when the menu starts
StartNodeFiles ==
    {f \in SeqsUpTo([id : StartIds, name : Names, created_at : {1}], StartNodes) :
        DistinctIds(f)}
StartLinkFiles == SeqsUpTo([source : StartIds, target : StartIds], StartLinks)

Init ==
    /\ superheroes_csv \in StartNodeFiles
    /\ links_csv \in StartLinkFiles
    /\ today = FirstDay
    /\ pc = "prompt"
    /\ choice = "none"
    /\ args = <<>>
    /\ result = NoResult

\* the files a query (choices '1' and '2') is run on; row i of superheroes.csv has
\* id i. Either the names and the links vary, or the dates and the day do: the
\* recency filter reads created_at alone, the ranking reads links.csv alone.
NodeFile(k, nm, dt) == [i \in 1..k |-> [id |-> i, name |-> nm[i], created_at |-> dt[i]]]

NamedNodeFiles ==
    UNION {{NodeFile(k, nm, [i \in 1..k |-> 1]) : nm \in [1..k -> Names]} : k \in 0..QueryNodes}
DatedNodeFiles ==
    UNION {{NodeFile(k, [i \in 1..k |-> "x"], dt) : dt \in [1..k -> InitDates]} : k \in 0..QueryNodes}
QueryLinkFiles == SeqsUpTo([source : LinkIds, target : LinkIds], QueryLinks)

InitQueries ==
    /\ \/ /\ superheroes_csv \in NamedNodeFiles
          /\ links_csv \in QueryLinkFiles
          /\ today = FirstDay
       \/ /\ superheroes_csv \in DatedNodeFiles
          /\ links_csv = <<>>
          /\ today \in Days
    /\ pc = "prompt"
    /\ choice = "none"
    /\ args = <<>>
    /\ result = NoResult

\* load_data(): both files read in full; created_at parsed to a date
load_superheroes == superheroes_csv
load_links == links_csv

\* choice '1': basic_stats(superheroes, links); the exception of the name lookup
\* is caught nowhere and leaves menu()
Choice1 ==
    /\ pc = "prompt"
    /\ LET superheroes == load_superheroes
           links == load_links
           now == today
           top == top_3(links)
           shown == print_top(superheroes, top)
       IN /\ result' = [NoResult EXCEPT
                 !.outcome = IF shown.raised = "none" THEN "ok" ELSE shown.raised,
                 !.total = count_nodes(superheroes),
                 !.connections = Len(links),
                 !.recent = recent_heroes(superheroes, now),
                 !.top_3 = top,
                 !.printed = shown.printed]
          /\ pc' = IF shown.raised = "none" THEN "prompt" ELSE "crashed"
    /\ choice' = "1"
    /\ args' = <<>>
    /\ UNCHANGED <<superheroes_csv, links_csv, today>>

\* choice '2': analyze_dataiskole(superheroes, links)
Choice2 ==
    /\ pc = "prompt"
    /\ LET superheroes == load_superheroes
           links == load_links
           row == dataiskole_row(superheroes)
       IN result' =
            IF row # <<>>
            THEN [NoResult EXCEPT
                    !.outcome = "ok",
                    !.found = TRUE,
                    !.friends = friend_rows(superheroes, friend_ids(links, row[1].id))]
            ELSE [NoResult EXCEPT !.outcome = "NotFound"]
    /\ pc' = "prompt"
    /\ choice' = "2"
    /\ args' = <<>>
    /\ UNCHANGED <<superheroes_csv, links_csv, today>>

\* choice '3': draw_graph(superheroes, links) shows a figure and returns
Choice3 ==
    /\ pc = "prompt"
    /\ result' = [NoResult EXCEPT !.outcome = "ok"]
    /\ pc' = "prompt"
    /\ choice' = "3"
    /\ args' = <<>>
    /\ UNCHANGED <<superheroes_csv, links_csv, today>>

\* choice '4': add_superhero()
add_superhero(name) ==
    /\ pc = "prompt"
    /\ Len(superheroes_csv) < MaxNodes
    /\ LET superheroes == superheroes_csv
           id == new_id(superheroes)
           new_row == [id |-> id, name |-> name, created_at |-> today]
       IN /\ superheroes_csv' = Append(superheroes, new_row)
          /\ result' = [NoResult EXCEPT !.outcome = "ok", !.new_id = id]
    /\ pc' = "prompt"
    /\ choice' = "4"
    /\ args' = <<name>>
    /\ UNCHANGED <<links_csv, today>>

Choice4 == \E name \in Names : add_superhero(name)

\* choice '5': add_connection(); the exception of int() is caught nowhere and
\* leaves menu()
add_connection(name1, name2) ==
    /\ pc = "prompt"
    /\ LET superheroes == superheroes_csv
           id1 == ids_of_name(superheroes, name1)
           id2 == ids_of_name(superheroes, name2)
           raised == IF int_raises(id1) # "none" THEN int_raises(id1) ELSE int_raises(id2)
       IN IF not_found(id1, id2)
          THEN /\ result' = [NoResult EXCEPT !.outcome = "NodeNotFound"]
               /\ pc' = "prompt"
               /\ UNCHANGED links_csv
          ELSE IF raised # "none"
          THEN /\ result' = [NoResult EXCEPT !.outcome = raised]
               /\ pc' = "crashed"
               /\ UNCHANGED links_csv
          ELSE /\ Len(links_csv) < MaxLinks
               /\ links_csv' = Append(links_csv, [source |-> id1[1], target |-> id2[1]])
               /\ result' = [NoResult EXCEPT !.outcome = "ok"]
               /\ pc' = "prompt"
    /\ choice' = "5"
    /\ args' = <<name1, name2>>
    /\ UNCHANGED <<superheroes_csv, today>>

Choice5 == \E name1, name2 \in Names : add_connection(name1, name2)

\* choice '6': break
Choice6 ==
    /\ pc = "prompt"
    /\ result' = [NoResult EXCEPT !.outcome = "ok"]
    /\ pc' = "exited"
    /\ choice' = "6"
    /\ args' = <<>>
    /\ UNCHANGED <<superheroes_csv, links_csv, today>>

\* any other input: "Invalid choice. Please try again."
ChoiceInvalid ==
    /\ pc = "prompt"
    /\ result' = [NoResult EXCEPT !.outcome = "invalid"]
    /\ pc' = "prompt"
    /\ choice' = "other"
    /\ args' = <<>>
    /\ UNCHANGED <<superheroes_csv, links_csv, today>>

Next ==
    \/ Choice1
    \/ Choice2
    \/ Choice3
    \/ Choice4
    \/ Choice5
    \/ Choice6
    \/ ChoiceInvalid

Spec == Init /\ [][Next]_vars

\* the queries alone, on every pair of files within the bounds
NextQueries ==
    \/ Choice1
    \/ Choice2

SpecQueries == InitQueries /\ [][NextQueries]_vars

\* ======================= properties =======================
Ids(superheroes) == {superheroes[i].id : i \in 1..Len(superheroes)}
HasName(superheroes, name) == \E i \in 1..Len(superheroes) : superheroes[i].name = name
FirstWithName(superheroes, name) ==
    superheroes[CHOOSE i \in 1..Len(superheroes) :
        /\ superheroes[i].name = name
        /\ \A j \in 1..(i - 1) : superheroes[j].name # name]
SetMax(S) == CHOOSE m \in S : \A x \in S : x <= m
FirstPos(scan, id) ==
    CHOOSE i \in 1..Len(scan) : scan[i] = id /\ \A j \in 1..(i - 1) : scan[j] # id

\* the endpoints of the rows of links.csv, row by row: source then target of each row
RowScan(links) ==
    [i \in 1..(2 * Len(links)) |->
        IF i % 2 = 1 THEN links[(i + 1) \div 2].source ELSE links[i \div 2].target]
\* the endpoints, the source column first and the target column after it
ColumnScan(links) ==
    [i \in 1..(2 * Len(links)) |->
        IF i <= Len(links) THEN links[i].source ELSE links[i - Len(links)].target]
\* the times id is an endpoint of a row (a row (A, A) holds A twice)
EndpointCount(links, id) ==
    Cardinality({i \in 1..Len(links) : links[i].source = id})
        + Cardinality({i \in 1..Len(links) : links[i].target = id})
\* the rows id appears in
RowsWith(links, id) == {i \in 1..Len(links) : links[i].source = id \/ links[i].target = id}

\* top is the first three ids of links in descending order of count, ids of equal
\* count in the order of their first place in scan
RankedBy(top, links, scan) ==
    LET ids == {scan[i] : i \in 1..Len(scan)}
        Before(a, b) ==
            \/ EndpointCount(links, a) > EndpointCount(links, b)
            \/ /\ EndpointCount(links, a) = EndpointCount(links, b)
               /\ FirstPos(scan, a) < FirstPos(scan, b)
    IN /\ Len(top) = Min(3, Cardinality(ids))
       /\ \A i \in 1..Len(top) :
            top[i][1] \in ids /\ top[i][2] = EndpointCount(links, top[i][1])
       /\ \A i, j \in 1..Len(top) : i < j => Before(top[i][1], top[j][1])
       /\ \A id \in ids \ {top[i][1] : i \in 1..Len(top)} :
            \A i \in 1..Len(top) : Before(top[i][1], id)

\* C1 (as claimed): add_superhero gives the new row the id max(existing ids) + 1,
\* and the id 1 when superheroes.csv had no row; the id is an integer.
C1_NewIdIsMaxPlusOneOrOne ==
    choice = "4" =>
        LET before == Front(superheroes_csv)
        IN /\ result.new_id \in Nat
           /\ result.new_id = IF before = <<>> THEN 1 ELSE SetMax(Ids(before)) + 1
           /\ Last(superheroes_csv).id = result.new_id

\* C2: add_connection with a name that no row of superheroes.csv carries ends
\* with the outcome NodeNotFound and leaves links.csv and superheroes.csv as they were.
C2_UnresolvedNameWritesNothing ==
    [][(/\ choice' = "5"
        /\ \E k \in 1..2 : ~HasName(superheroes_csv, args'[k]))
       => /\ result'.outcome = "NodeNotFound"
          /\ links_csv' = links_csv
          /\ superheroes_csv' = superheroes_csv]_vars

\* C2 witness: links.csv has a row, the first name resolves, the second does not
C2_Witness ==
    /\ choice = "5"
    /\ result.outcome = "NodeNotFound"
    /\ links_csv # <<>>
    /\ HasName(superheroes_csv, args[1])
    /\ ~HasName(superheroes_csv, args[2])

\* C3 (as claimed): add_connection succeeds whenever both names are carried by a row
\* (of integer id), and the last row of links.csv is then (id1, id2), the ids of the
\* first rows carrying name1 and name2; also when several rows carry a name.
C3_ResolvedNamesAppendFirstMatch ==
    (/\ choice = "5"
     /\ NaN \notin Ids(superheroes_csv)
     /\ HasName(superheroes_csv, args[1])
     /\ HasName(superheroes_csv, args[2]))
    => /\ result.outcome = "ok"
       /\ links_csv # <<>>
       /\ Last(links_csv) = [source |-> FirstWithName(superheroes_csv, args[1]).id,
                             target |-> FirstWithName(superheroes_csv, args[2]).id]

\* C4 (as claimed): the top 3 of basic_stats are in descending order of count, ids of
\* equal count in the order they are first seen scanning links.csv row by row.
C4_TiesInRowOrder ==
    choice = "1" => RankedBy(result.top_3, links_csv, RowScan(links_csv))

\* C4 (amended): the top 3 of basic_stats are in descending order of count, ids of
\* equal count in the order they are first seen in the source column followed by
\* the target column.
C4_TiesInColumnOrder ==
    choice = "1" => RankedBy(result.top_3, links_csv, ColumnScan(links_csv))

\* C4 witness: two ranked ids of equal count that the two scans order differently
C4_Witness ==
    /\ choice = "1"
    /\ \E i, j \in 1..Len(result.top_3) :
         /\ i < j
         /\ result.top_3[i][2] = result.top_3[j][2]
         /\ FirstPos(RowScan(links_csv), result.top_3[j][1])
                < FirstPos(RowScan(links_csv), result.top_3[i][1])

\* C5 (as claimed): the friends analyze_dataiskole lists are the rows whose id is
\* the other end of a link of dataiskole, dataiskole itself left out.
C5_FriendsExcludeSelf ==
    (choice = "2" /\ result.found) =>
        LET x == FirstWithName(superheroes_csv, "dataiskole").id
            others ==
                {links_csv[i].target : i \in {k \in 1..Len(links_csv) : links_csv[k].source = x}}
                \cup
                {links_csv[i].source : i \in {k \in 1..Len(links_csv) : links_csv[k].target = x}}
        IN result.friends =
             SelectSeq(superheroes_csv, LAMBDA r : r.id \in others /\ r.id # x)

\* C6: when a ranked id of the top 3 has no row in superheroes.csv, basic_stats ends
\* with the lookup error; the lines printed are those of the ranked ids before the
\* first such id, so it is not skipped and no line is printed for it.
C6_DanglingIdRaises ==
    choice = "1" =>
        LET top == result.top_3
            dangling == {i \in 1..Len(top) : top[i][1] \notin Ids(superheroes_csv)}
            first == CHOOSE i \in dangling : \A j \in dangling : i <= j
        IN dangling # {} =>
             /\ result.outcome = "IndexError"
             /\ Len(result.printed) = first - 1
             /\ \A i \in 1..Len(result.printed) : result.printed[i][2] = top[i][2]

\* C6 witness: a line was printed, then a ranked id had no row
C6_Witness ==
    /\ choice = "1"
    /\ result.outcome = "IndexError"
    /\ Len(result.printed) >= 1
    /\ Len(result.top_3) = 3

\* C7 (as claimed): the menu loop is left only by choice 6; after any failure the
\* prompt is shown again.
C7_LoopEndsOnlyOnExit == pc # "prompt" => (pc = "exited" /\ choice = "6")

\* C8 (as claimed): the recent rows of basic_stats are the rows with created_at in
\* [today - 3, today], in file order.
C8_RecentIsClosedInterval ==
    choice = "1" =>
        result.recent =
            SelectSeq(superheroes_csv,
                      LAMBDA r : today - 3 <= r.created_at /\ r.created_at <= today)

\* C9 (as claimed): the count of a ranked id is the number of rows of links.csv it
\* appears in, a row (A, A) being one row.
C9_CountIsRowsWithId ==
    choice = "1" =>
        \A i \in 1..Len(result.top_3) :
            result.top_3[i][2] = Cardinality(RowsWith(links_csv, result.top_3[i][1]))

\* C10: from a superheroes.csv with at least one row and pairwise distinct integer
\* ids, every step of the menu leaves the ids pairwise distinct, and an id given by
\* add_superhero is greater than every id the file held.
PairwiseDistinct(superheroes) ==
    \A i, j \in 1..Len(superheroes) : i # j => superheroes[i].id # superheroes[j].id

C10_IdsStayDistinct ==
    [][(/\ superheroes_csv # <<>>
        /\ NaN \notin Ids(superheroes_csv)
        /\ PairwiseDistinct(superheroes_csv))
       => /\ PairwiseDistinct(superheroes_csv')
          /\ NaN \notin Ids(superheroes_csv')
          /\ choice' = "4" =>
               /\ Len(superheroes_csv') = Len(superheroes_csv) + 1
               /\ Last(superheroes_csv').id = result'.new_id
               /\ \A id \in Ids(superheroes_csv) : result'.new_id > id]_vars

\* C10 witness: two superheroes added to a file that had a row, then a connection
C10_Witness ==
    /\ Len(superheroes_csv) = 3
    /\ NaN \notin Ids(superheroes_csv)
    /\ PairwiseDistinct(superheroes_csv)
    /\ choice = "5"
    /\ result.outcome = "ok"
====
